---- MODULE Spec2Model ----
(***************************************************************************)
(* The filter-expression engine of configcenter/src/common/criteria/filter *)
(* (rule.go): AtomRule and CombinedRule with their Validate, RuleFields    *)
(* and ToMgo methods.                                                      *)
(*                                                                         *)
(* Representation.                                                         *)
(*   string              a sequence of one-character strings               *)
(*   pointer             <<>> for nil, <<x>> for a pointer to x            *)
(*   interface{} value   [kind, v, elems, rule]; kind is the reflect kind  *)
(*   error               [kind |-> ...] plus the data of the message;      *)
(*                       NoErr is the nil error                            *)
(*   map[string]interface{}  a sequence of entries [k, v]; <<>> is nil     *)
(*   a method whose result depends on Go's map iteration order returns     *)
(*   the set of results the runtime can produce                            *)
(***************************************************************************)
EXTENDS Integers, Sequences, FiniteSets, TLC

VARIABLES rule, exprOpt, ruleOpts, pc, vres, fres, mres

vars == <<rule, exprOpt, ruleOpts, pc, vres, fres, mres>>

\* ------------------------------------------------------------------------
\* bounds of the explored inputs
\* ------------------------------------------------------------------------
\* largest number of nodes (rules, nested ones included) of an input tree
MaxNodes == 4

\* ------------------------------------------------------------------------
\* pointers, strings
\* ------------------------------------------------------------------------
Nil == <<>>

Ptr(x) == <<x>>

Deref(p) == p[1]

Range(s) == {s[i] : i \in DOMAIN s}

Dot == <<".">>

\* ------------------------------------------------------------------------
\* errors
\* ------------------------------------------------------------------------
NoErr == [kind |-> "nil"]

ErrEmptyField == [kind |-> "EmptyField"]

ErrInvalidOperator(op) == [kind |-> "InvalidOperator", operator |-> op]

ErrNilValue == [kind |-> "NilValue"]

ErrUndeclaredField(field) == [kind |-> "UndeclaredField", field |-> field]

ErrTypeMismatch(typ) == [kind |-> "TypeMismatch", expected |-> typ]

ErrUnsupportedType(typ) == [kind |-> "UnsupportedValueType", typ |-> typ]

ErrInvalidFieldValue(field, err) == [kind |-> "InvalidFieldValue", field |-> field, err |-> err]

ErrValidateFailed(field, err) == [kind |-> "ValidateFailed", field |-> field, err |-> err]

ErrInvalidValueShape(op) == [kind |-> "InvalidValueShape", operator |-> op]

ErrUnsupportedCondition(cond) == [kind |-> "UnsupportedCondition", condition |-> cond]

ErrEmptyRules == [kind |-> "EmptyRules"]

ErrTooManyRules(limit) == [kind |-> "TooManyRules", limit |-> limit]

ErrNoQueryableField == [kind |-> "NoQueryableField"]

ErrUnknownFieldInPolicy(field) == [kind |-> "UnknownFieldInPolicy", field |-> field]

ErrDepthExceeded == [kind |-> "DepthExceeded"]

ErrInvalidParentContext == [kind |-> "InvalidParentContext"]

ErrParseArrayIndex(field) == [kind |-> "InvalidArrayIndex", field |-> field, parsed |-> FALSE]

ErrInvalidArrayIndex(field) == [kind |-> "InvalidArrayIndex", field |-> field, parsed |-> TRUE]

ErrUnsupportedParentType(typ) == [kind |-> "UnsupportedParentType", typ |-> typ]

ErrRuleInvalid(idx, err) == [kind |-> "RuleInvalid", idx |-> idx, err |-> err]

\* ------------------------------------------------------------------------
\* enumor.ColumnType, operators, logic operators, reserved names
\* ------------------------------------------------------------------------
String == "string"

Numeric == "numeric"

Boolean == "bool"

Time == "time"

Object == "object"

Array == "array"

Equal == "equal"

In == "in"

FilterObject == "filter_object"

FilterArray == "filter_array"

And == "AND"

Or == "OR"

BKDBAND == <<"$and">>

BKDBOR == <<"$or">>

FilterArrayElement == <<"e", "l", "e", "m", "e", "n", "t">>

\* the default of the rule-count limit; the repository's value is scaled
\* down so that a tree of MaxNodes nodes can exceed it
DefaultMaxRuleLimit == 2

\* ------------------------------------------------------------------------
\* values and rules
\* ------------------------------------------------------------------------
NilValue == [kind |-> "nil", v |-> "", elems |-> <<>>, rule |-> Nil]

Scalar(kind, v) == [kind |-> kind, v |-> v, elems |-> <<>>, rule |-> Nil]

SliceValue(elems) == [kind |-> "slice", v |-> "", elems |-> elems, rule |-> Nil]

RuleValue(r) == [kind |-> "rule", v |-> "", elems |-> <<>>, rule |-> Ptr(r)]

AtomType == "AtomRule"

CombinedType == "CombinedRule"

AtomRule(field, op, value) ==
    [type |-> AtomType, Field |-> field, Operator |-> op, Value |-> value]

CombinedRule(cond, rules) ==
    [type |-> CombinedType, Condition |-> cond, Rules |-> rules]

ExprOption(ruleFields, maxIn, maxNotIn, maxRules, maxDepth) ==
    [RuleFields |-> ruleFields, MaxInLimit |-> maxIn, MaxNotInLimit |-> maxNotIn,
     MaxRulesLimit |-> maxRules, MaxRulesDepth |-> maxDepth]

RuleOption(parent, parentType) == [Parent |-> parent, ParentType |-> parentType]

\* ------------------------------------------------------------------------
\* the Operator Catalog and the Logic Catalog (collaborators)
\* ------------------------------------------------------------------------
OpFactoryValidate(op) ==
    IF op \in {Equal, In, FilterObject, FilterArray} THEN NoErr ELSE ErrInvalidOperator(op)

LogicOperatorValidate(cond) ==
    IF cond \in {And, Or} THEN NoErr ELSE ErrUnsupportedCondition(cond)

OpTag(op) ==
    CASE op = Equal -> "$eq"
      [] op = In -> "$in"
      [] OTHER -> "$unknown"

OpValidateValue(op, value, opt) ==
    CASE op = Equal ->
            IF value.kind \in {"string", "numeric", "bool", "time"}
            THEN NoErr ELSE ErrInvalidValueShape(op)
      [] op = In ->
            IF value.kind # "slice" THEN ErrInvalidValueShape(op)
            ELSE IF opt # Nil /\ Deref(opt).MaxInLimit > 0
                    /\ Len(value.elems) > Deref(opt).MaxInLimit
                 THEN ErrInvalidValueShape(op)
                 ELSE NoErr
      [] op \in {FilterObject, FilterArray} ->
            IF value.kind = "rule" THEN NoErr ELSE ErrInvalidValueShape(op)
      [] OTHER -> ErrInvalidOperator(op)

IsNumeric(v) == v.kind = "numeric"

ValidateDatetimeType(v) == IF v.kind = "time" THEN NoErr ELSE ErrTypeMismatch(Time)

\* ------------------------------------------------------------------------
\* RuleFields
\* ------------------------------------------------------------------------
RECURSIVE RuleFields(_)

RECURSIVE CombinedRuleRuleFieldsFrom(_, _)

\* the nested paths reported without the field in front
prefixFieldsDropped(field, subFields) == subFields

prefixFields(field, subFields) ==
    [idx \in 1..Len(subFields) |-> field \o Dot \o subFields[idx]]

AtomRuleRuleFields(ar) ==
    IF ar.Operator \in {FilterObject, FilterArray}
    THEN IF ar.Value.kind # "rule"
         THEN <<ar.Field>>
         ELSE prefixFields(ar.Field, RuleFields(Deref(ar.Value.rule)))
    ELSE <<ar.Field>>

CombinedRuleRuleFieldsFrom(rules, i) ==
    IF i > Len(rules) THEN <<>>
    ELSE RuleFields(rules[i]) \o CombinedRuleRuleFieldsFrom(rules, i + 1)

CombinedRuleRuleFields(cr) == CombinedRuleRuleFieldsFrom(cr.Rules, 1)

RuleFields(r) ==
    IF r.type = AtomType THEN AtomRuleRuleFields(r) ELSE CombinedRuleRuleFields(r)

\* ------------------------------------------------------------------------
\* AtomRule.Validate
\* ------------------------------------------------------------------------
RECURSIVE validateFieldValue(_, _)

RECURSIVE validateSliceElementsFrom(_, _, _)

validateSliceElementsFrom(elems, i, typ) ==
    IF i > Len(elems) THEN NoErr
    ELSE IF validateFieldValue(elems[i], typ) # NoErr
         THEN validateFieldValue(elems[i], typ)
         ELSE validateSliceElementsFrom(elems, i + 1, typ)

validateSliceElements(v, typ) ==
    IF Len(v.elems) = 0 THEN NoErr ELSE validateSliceElementsFrom(v.elems, 1, typ)

validateFieldValue(v, typ) ==
    IF v.kind = "slice" THEN validateSliceElements(v, typ)
    ELSE CASE typ = String ->
                IF v.kind # "string" THEN ErrTypeMismatch(String) ELSE NoErr
           [] typ = Numeric ->
                IF ~IsNumeric(v) THEN ErrTypeMismatch(Numeric) ELSE NoErr
           [] typ = Boolean ->
                IF v.kind # "bool" THEN ErrTypeMismatch(Boolean) ELSE NoErr
           [] typ = Time -> ValidateDatetimeType(v)
           [] OTHER -> ErrUnsupportedType(typ)

\* the same checks with the operator check moved in front of the field check
AtomRuleValidateOperatorFirst(ar, opt) ==
    IF OpFactoryValidate(ar.Operator) # NoErr THEN OpFactoryValidate(ar.Operator)
    ELSE IF ar.Value.kind = "nil" THEN ErrNilValue
    ELSE IF Len(ar.Field) = 0 THEN ErrEmptyField
    ELSE IF OpValidateValue(ar.Operator, ar.Value, opt) # NoErr
    THEN ErrValidateFailed(ar.Field, OpValidateValue(ar.Operator, ar.Value, opt))
    ELSE NoErr

AtomRuleValidate(ar, opt) ==
    IF Len(ar.Field) = 0 THEN ErrEmptyField
    ELSE IF OpFactoryValidate(ar.Operator) # NoErr THEN OpFactoryValidate(ar.Operator)
    ELSE IF ar.Value.kind = "nil" THEN ErrNilValue
    ELSE IF /\ opt # Nil
            /\ Cardinality(DOMAIN Deref(opt).RuleFields) > 0
            /\ ar.Field \notin DOMAIN Deref(opt).RuleFields
    THEN ErrUndeclaredField(ar.Field)
    ELSE IF /\ opt # Nil
            /\ Cardinality(DOMAIN Deref(opt).RuleFields) > 0
            /\ validateFieldValue(ar.Value, Deref(opt).RuleFields[ar.Field]) # NoErr
    THEN ErrInvalidFieldValue(ar.Field,
                              validateFieldValue(ar.Value, Deref(opt).RuleFields[ar.Field]))
    ELSE IF OpValidateValue(ar.Operator, ar.Value, opt) # NoErr
    THEN ErrValidateFailed(ar.Field, OpValidateValue(ar.Operator, ar.Value, opt))
    ELSE NoErr

\* ------------------------------------------------------------------------
\* CombinedRule.Validate
\* ------------------------------------------------------------------------
RECURSIVE Validate(_, _)

RECURSIVE validateChildrenFrom(_, _, _)

\* the limit taken from the default whatever the option says
maxRulesAlwaysDefault(opt) == DefaultMaxRuleLimit

maxRulesOf(opt) ==
    IF opt # Nil /\ Deref(opt).MaxRulesLimit > 0
    THEN Deref(opt).MaxRulesLimit
    ELSE DefaultMaxRuleLimit

\* the fields of the rule that the option does not declare; the loop over
\* the map fieldsReminder returns at the first of them it meets, in the
\* runtime's iteration order
unknownFields(fieldsReminder, opt) ==
    IF opt # Nil /\ Cardinality(DOMAIN Deref(opt).RuleFields) > 0
    THEN {one \in fieldsReminder : one \notin DOMAIN Deref(opt).RuleFields}
    ELSE {}

\* the depth check passing a budget of 1 and failing an unset one
depthExceededAtZero(opt) == opt # Nil /\ Deref(opt).MaxRulesDepth = 0

depthExceeded(opt) ==
    opt # Nil /\ Deref(opt).MaxRulesDepth > 0 /\ Deref(opt).MaxRulesDepth = 1

childOptOf(opt) ==
    IF opt # Nil /\ Deref(opt).MaxRulesDepth > 0
    THEN Ptr(ExprOption(Deref(opt).RuleFields, Deref(opt).MaxInLimit,
                        Deref(opt).MaxNotInLimit, Deref(opt).MaxRulesLimit,
                        Deref(opt).MaxRulesDepth - 1))
    ELSE Nil

\* a loop that returns after the first child
validateFirstChildOnly(rules, i, childOpt) ==
    IF i > Len(rules) THEN {NoErr} ELSE Validate(rules[1], childOpt)

\* the loop over cr.Rules: the results of the first child that fails
validateChildrenFrom(rules, i, childOpt) ==
    IF i > Len(rules) THEN {NoErr}
    ELSE LET outs == Validate(rules[i], childOpt)
         IN  (outs \ {NoErr}) \cup
             (IF NoErr \in outs THEN validateChildrenFrom(rules, i + 1, childOpt) ELSE {})

CombinedRuleValidate(cr, opt) ==
    IF LogicOperatorValidate(cr.Condition) # NoErr THEN {LogicOperatorValidate(cr.Condition)}
    ELSE IF Len(cr.Rules) = 0 THEN {ErrEmptyRules}
    ELSE IF Len(cr.Rules) > maxRulesOf(opt) THEN {ErrTooManyRules(maxRulesOf(opt))}
    ELSE LET fieldsReminder == Range(CombinedRuleRuleFields(cr))
         IN  IF fieldsReminder = {} THEN {ErrNoQueryableField}
             ELSE IF unknownFields(fieldsReminder, opt) # {}
             THEN {ErrUnknownFieldInPolicy(one) : one \in unknownFields(fieldsReminder, opt)}
             ELSE IF depthExceeded(opt) THEN {ErrDepthExceeded}
             ELSE validateChildrenFrom(cr.Rules, 1, childOptOf(opt))

\* RuleFactory.Validate: the set of errors a call can return
Validate(r, opt) ==
    IF r.type = AtomType THEN {AtomRuleValidate(r, opt)} ELSE CombinedRuleValidate(r, opt)

\* ------------------------------------------------------------------------
\* strconv.Atoi, for the strings short enough to take its fast path
\* (fewer than 19 characters), which cannot overflow
\* ------------------------------------------------------------------------
DigitValue(c) ==
    CASE c = "0" -> 0 [] c = "1" -> 1 [] c = "2" -> 2 [] c = "3" -> 3 [] c = "4" -> 4
      [] c = "5" -> 5 [] c = "6" -> 6 [] c = "7" -> 7 [] c = "8" -> 8 [] c = "9" -> 9
      [] OTHER -> 10

RECURSIVE digitsValue(_, _, _)

digitsValue(s, i, n) ==
    IF i > Len(s) THEN n ELSE digitsValue(s, i + 1, n * 10 + DigitValue(s[i]))

strconvAtoi(s) ==
    LET digits == IF Len(s) > 0 /\ s[1] \in {"-", "+"} THEN Tail(s) ELSE s
    IN  IF Len(digits) < 1 \/ \E i \in DOMAIN digits : DigitValue(digits[i]) > 9
        THEN [err |-> TRUE, n |-> 0]
        ELSE [err |-> FALSE,
              n |-> IF s[1] = "-" THEN 0 - digitsValue(digits, 1, 0)
                    ELSE digitsValue(digits, 1, 0)]

\* ------------------------------------------------------------------------
\* ToMgo
\* ------------------------------------------------------------------------
RECURSIVE ToMgo(_, _)

RECURSIVE toMgoChildrenFrom(_, _, _, _)

Failed(err) == [doc |-> Nil, err |-> err]

Compiled(doc) == [doc |-> doc, err |-> NoErr]

\* the Operator Catalog's compile of (field, value): {field: {tag: value}},
\* and for a structural operator the compile of the nested rule with the
\* field as its parent
OpToMgo(op, field, value) ==
    CASE op \in {Equal, In} ->
            Compiled(<<[k |-> field, v |-> [op |-> OpTag(op), value |-> value]]>>)
      [] op = FilterObject ->
            IF value.kind # "rule" THEN Failed(ErrInvalidValueShape(op))
            ELSE ToMgo(Deref(value.rule), <<Ptr(RuleOption(field, Object))>>)
      [] op = FilterArray ->
            IF value.kind # "rule" THEN Failed(ErrInvalidValueShape(op))
            ELSE ToMgo(Deref(value.rule), <<Ptr(RuleOption(field, Array))>>)
      [] OTHER -> Failed(ErrInvalidOperator(op))

\* an index check that lets zero through
indexInvalidBelowZero(index) == index < 0

indexInvalid(index) == index <= 0

\* the object branch compiling against the bare field
objectFieldBare(parent, field) == field

objectField(parent, field) == parent \o Dot \o field

AtomRuleToMgo(ar, opts) ==
    IF Len(opts) > 0 /\ opts[1] # Nil
    THEN LET opt == Deref(opts[1])
         IN  IF Len(opt.Parent) = 0 THEN Failed(ErrInvalidParentContext)
             ELSE CASE opt.ParentType = Object ->
                         OpToMgo(ar.Operator, objectField(opt.Parent, ar.Field), ar.Value)
                    [] opt.ParentType = Array ->
                         IF ar.Field = FilterArrayElement
                         THEN OpToMgo(ar.Operator, opt.Parent, ar.Value)
                         ELSE IF strconvAtoi(ar.Field).err
                         THEN Failed(ErrParseArrayIndex(ar.Field))
                         ELSE IF indexInvalid(strconvAtoi(ar.Field).n)
                         THEN Failed(ErrInvalidArrayIndex(ar.Field))
                         ELSE OpToMgo(ar.Operator, opt.Parent \o Dot \o ar.Field, ar.Value)
                    [] OTHER -> Failed(ErrUnsupportedParentType(opt.ParentType))
    ELSE OpToMgo(ar.Operator, ar.Field, ar.Value)

\* a child compiled without the options the parent received
forwardNone(opt) == <<>>

forwardOpts(opt) == opt

\* a fragment put in front of the ones collected so far
prependFilter(filters, filter) == <<filter>> \o filters

appendFilter(filters, filter) == Append(filters, filter)

\* the loop over cr.Rules: the fragments, or the error of the first child
\* that fails with its index
toMgoChildrenFrom(rules, i, opt, filters) ==
    IF i > Len(rules) THEN [filters |-> filters, err |-> NoErr]
    ELSE LET r == ToMgo(rules[i], forwardOpts(opt))
         IN  IF r.err # NoErr
             THEN [filters |-> <<>>, err |-> ErrRuleInvalid(i - 1, r.err)]
             ELSE toMgoChildrenFrom(rules, i + 1, opt, appendFilter(filters, r.doc))

CombinedRuleToMgo(cr, opt) ==
    IF LogicOperatorValidate(cr.Condition) # NoErr
    THEN Failed(LogicOperatorValidate(cr.Condition))
    ELSE IF Len(cr.Rules) = 0 THEN Failed(ErrEmptyRules)
    ELSE LET res == toMgoChildrenFrom(cr.Rules, 1, opt, <<>>)
         IN  IF res.err # NoErr THEN Failed(res.err)
             ELSE CASE cr.Condition = Or ->
                         Compiled(<<[k |-> BKDBOR, v |-> [filters |-> res.filters]]>>)
                    [] cr.Condition = And ->
                         Compiled(<<[k |-> BKDBAND, v |-> [filters |-> res.filters]]>>)
                    [] OTHER -> Failed(ErrUnsupportedCondition(cr.Condition))

\* RuleFactory.ToMgo
ToMgo(r, opts) ==
    IF r.type = AtomType THEN AtomRuleToMgo(r, opts) ELSE CombinedRuleToMgo(r, opts)

\* ------------------------------------------------------------------------
\* the inputs explored
\* ------------------------------------------------------------------------
Num18 == Scalar("numeric", "18")

StrAl == Scalar("string", "Al")

FieldA == <<"a">>

FieldB == <<"b">>

FieldC == <<"c">>

Tags == <<"t", "a", "g", "s">>

\* the atomic rules at the leaves of the trees: two valid ones and one
\* whose operator the catalog does not know
LeafAtoms ==
    {AtomRule(FieldA, Equal, Num18), AtomRule(FieldB, Equal, StrAl),
     AtomRule(FieldC, "like", Num18)}

Conditions == {And, Or, "XOR"}

RECURSIVE RulesOfSize(_)

RECURSIVE ForestsOfSize(_)

\* the sequences of rules with k nodes in all
ForestsOfSize(k) ==
    IF k = 0 THEN {<<>>}
    ELSE UNION {{<<t>> \o f : t \in RulesOfSize(j), f \in ForestsOfSize(k - j)} : j \in 1..k}

\* the rules with n nodes: leaves, combined rules, and structural atomic
\* rules holding a nested rule
RulesOfSize(n) ==
    (IF n = 1 THEN LeafAtoms ELSE {})
    \cup {CombinedRule(c, f) : c \in Conditions, f \in ForestsOfSize(n - 1)}
    \cup (IF n >= 2
          THEN {AtomRule(FieldA, FilterObject, RuleValue(t)) : t \in RulesOfSize(n - 1)}
          ELSE {})

\* atomic rules tried on their own
SoloFields ==
    {<<>>, FieldA, <<"1">>, <<"0">>, <<"-", "1">>, <<"+", "2">>, <<"1", "2">>,
     <<"1", "x">>, FilterArrayElement}

SoloValues ==
    {NilValue, Num18, StrAl, Scalar("bool", "true"), Scalar("time", "2022-01-01"),
     SliceValue(<<Num18, StrAl>>), RuleValue(AtomRule(FieldB, Equal, StrAl))}

SoloAtoms ==
    {AtomRule(f, op, v) : f \in SoloFields, op \in {Equal, In, FilterArray, "like"},
                          v \in SoloValues}

InputRules == SoloAtoms \cup UNION {RulesOfSize(n) : n \in 1..MaxNodes}

NoRuleFields == <<>>

DeclaredFields == (FieldA :> Numeric) @@ (FieldB :> String) @@ (FieldC :> Numeric)

MistypedFields == (FieldA :> Numeric) @@ (FieldB :> Numeric) @@ (FieldC :> Numeric)

OnlyFieldA == (FieldA :> Numeric)

OddFields == (FieldA :> Time) @@ (FieldB :> Boolean) @@ (FieldC :> Object)

InputExprOptions ==
    {Nil}
    \cup {Ptr(ExprOption(NoRuleFields, 0, 0, 0, d)) : d \in 0..3}
    \cup {Ptr(ExprOption(NoRuleFields, 0, 0, 1, d)) : d \in {0, 3}}
    \cup {Ptr(ExprOption(NoRuleFields, 0, 0, 3, 0)), Ptr(ExprOption(NoRuleFields, 1, 1, 0, 0))}
    \cup {Ptr(ExprOption(rf, 0, 0, 0, d)) : rf \in {DeclaredFields, MistypedFields, OnlyFieldA},
                                            d \in {0, 3}}
    \cup {Ptr(ExprOption(OddFields, 0, 0, 0, 0))}

InputRuleOptions ==
    {<<>>, <<Nil>>,
     <<Ptr(RuleOption(Tags, Object))>>, <<Ptr(RuleOption(Tags, Array))>>,
     <<Ptr(RuleOption(<<>>, Object))>>, <<Ptr(RuleOption(Tags, String))>>}

\* ------------------------------------------------------------------------
\* the state machine: a rule tree is built, then one method is called on it
\* ------------------------------------------------------------------------
NoResult == [doc |-> Nil, err |-> NoErr]

Init ==
    /\ rule \in InputRules
    /\ exprOpt = Nil
    /\ ruleOpts = <<>>
    /\ pc = "built"
    /\ vres = NoErr
    /\ fres = <<>>
    /\ mres = NoResult

CallValidate ==
    /\ pc = "built"
    /\ \E opt \in InputExprOptions :
          /\ exprOpt' = opt
          /\ \E err \in Validate(rule, opt) : vres' = err
    /\ pc' = "validated"
    /\ UNCHANGED <<rule, ruleOpts, fres, mres>>

CallRuleFields ==
    /\ pc = "built"
    /\ fres' = RuleFields(rule)
    /\ pc' = "listed"
    /\ UNCHANGED <<rule, exprOpt, ruleOpts, vres, mres>>

CallToMgo ==
    /\ pc = "built"
    /\ \E opts \in InputRuleOptions :
          /\ ruleOpts' = opts
          /\ mres' = ToMgo(rule, opts)
    /\ pc' = "compiled"
    /\ UNCHANGED <<rule, exprOpt, vres, fres>>

\* the pipeline of a validated rule: compiled without path context
CallToMgoValidated ==
    /\ pc = "validated"
    /\ vres = NoErr
    /\ ruleOpts' = <<>>
    /\ mres' = ToMgo(rule, <<>>)
    /\ pc' = "validated_compiled"
    /\ UNCHANGED <<rule, exprOpt, vres, fres>>

Next == CallValidate \/ CallRuleFields \/ CallToMgo \/ CallToMgoValidated

Spec == Init /\ [][Next]_vars

\* ------------------------------------------------------------------------
\* helpers of the properties
\* ------------------------------------------------------------------------
IsCombined(r) == r.type = CombinedType

IsAtom(r) == r.type = AtomType

HasCombinedChild(r) == \E i \in DOMAIN r.Rules : IsCombined(r.Rules[i])

AllChildrenAtoms(r) == \A i \in DOMAIN r.Rules : IsAtom(r.Rules[i])

\* an option that sets the depth budget and nothing else
OnlyDepth(d) == Ptr(ExprOption(NoRuleFields, 0, 0, 0, d))

\* the rule passes validation when no option is given
ValidWithoutOption(r) == Validate(r, Nil) = {NoErr}

Validated == pc = "validated"

\* ------------------------------------------------------------------------
\* C1
\* ------------------------------------------------------------------------
\* C1 as stated: with maxRulesDepth = 1 a CombinedRule with a nested
\* CombinedRule is rejected; with maxRulesDepth = 2 a CombinedRule whose
\* CombinedRule children hold only valid atomic rules (one level of nesting)
\* is accepted, and a tree with a second level of nesting is rejected.
C1_AsStated ==
    (Validated /\ IsCombined(rule) /\ HasCombinedChild(rule)) =>
        /\ (exprOpt # Nil /\ Deref(exprOpt).MaxRulesDepth = 1) => vres # NoErr
        /\ (exprOpt = OnlyDepth(2) /\ ValidWithoutOption(rule)) =>
              IF \A i \in DOMAIN rule.Rules :
                    IsCombined(rule.Rules[i]) => AllChildrenAtoms(rule.Rules[i])
              THEN vres = NoErr
              ELSE vres = ErrDepthExceeded

\* C1 (amended): with maxRulesDepth = 1 every CombinedRule is rejected, nested
\* or not, and with the depth-exceeded error when the rule is valid without a
\* policy; with maxRulesDepth = 2 a CombinedRule is rejected as soon as one of
\* its children is a CombinedRule (with the depth-exceeded error when the rule
\* is valid without a policy), and a CombinedRule of valid atomic rules is
\* accepted.
C1_DepthPolicy ==
    (Validated /\ IsCombined(rule) /\ exprOpt # Nil) =>
        /\ Deref(exprOpt).MaxRulesDepth = 1 => vres # NoErr
        /\ (exprOpt = OnlyDepth(1) /\ ValidWithoutOption(rule)) => vres = ErrDepthExceeded
        /\ (Deref(exprOpt).MaxRulesDepth = 2 /\ HasCombinedChild(rule)) => vres # NoErr
        /\ (exprOpt = OnlyDepth(2) /\ ValidWithoutOption(rule)) =>
              IF HasCombinedChild(rule) THEN vres = ErrDepthExceeded ELSE vres = NoErr

\* C1 witness: a valid CombinedRule with a CombinedRule child, validated with
\* maxRulesDepth = 2, fails with the depth-exceeded error
C1_Witness ==
    /\ Validated /\ IsCombined(rule) /\ HasCombinedChild(rule)
    /\ exprOpt = OnlyDepth(2) /\ ValidWithoutOption(rule)
    /\ vres = ErrDepthExceeded

C1_WitnessFlat ==
    /\ Validated /\ IsCombined(rule) /\ AllChildrenAtoms(rule)
    /\ exprOpt = OnlyDepth(2) /\ vres = NoErr

\* ------------------------------------------------------------------------
\* C2
\* ------------------------------------------------------------------------
\* the options the claim has a child validated with: the parent's, with the
\* depth budget lowered by one when it is set
ForwardedOption(opt) ==
    Ptr(ExprOption(Deref(opt).RuleFields, Deref(opt).MaxInLimit, Deref(opt).MaxNotInLimit,
                   Deref(opt).MaxRulesLimit,
                   IF Deref(opt).MaxRulesDepth > 0 THEN Deref(opt).MaxRulesDepth - 1 ELSE 0))

\* C2: every child of a CombinedRule is validated with the parent's
\* ruleFields, maxInLimit, maxNotInLimit and maxRulesLimit, also when
\* maxRulesDepth is 0: a CombinedRule is accepted only if each child is
\* accepted under the forwarded options; with ruleFields set and
\* maxRulesDepth = 0 a child AtomicRule whose value does not match its
\* field's declared type is rejected, and with maxRulesLimit = L > 0 and
\* maxRulesDepth = 0 a nested CombinedRule with more than L children is
\* rejected.
C2_PolicyForwarded ==
    (Validated /\ IsCombined(rule) /\ exprOpt # Nil) =>
        /\ vres = NoErr =>
              \A i \in DOMAIN rule.Rules :
                  NoErr \in Validate(rule.Rules[i], ForwardedOption(exprOpt))
        /\ (/\ Deref(exprOpt).MaxRulesDepth = 0
            /\ \E i \in DOMAIN rule.Rules :
                  /\ IsAtom(rule.Rules[i])
                  /\ rule.Rules[i].Field \in DOMAIN Deref(exprOpt).RuleFields
                  /\ rule.Rules[i].Value.kind # "nil"
                  /\ validateFieldValue(rule.Rules[i].Value,
                                        Deref(exprOpt).RuleFields[rule.Rules[i].Field]) # NoErr)
           => vres # NoErr
        /\ (/\ Deref(exprOpt).MaxRulesDepth = 0
            /\ Deref(exprOpt).MaxRulesLimit > 0
            /\ \E i \in DOMAIN rule.Rules :
                  /\ IsCombined(rule.Rules[i])
                  /\ Len(rule.Rules[i].Rules) > Deref(exprOpt).MaxRulesLimit)
           => vres # NoErr

\* ------------------------------------------------------------------------
\* C3
\* ------------------------------------------------------------------------
\* the limit the claim names: the option's when it is set and positive, the
\* default otherwise
EffectiveLimit(opt) ==
    IF opt = Nil THEN DefaultMaxRuleLimit
    ELSE IF Deref(opt).MaxRulesLimit > 0 THEN Deref(opt).MaxRulesLimit
    ELSE DefaultMaxRuleLimit

\* C3: Validate fails for every CombinedRule with zero children and for every
\* CombinedRule with more children than the effective limit (with the
\* too-many-rules error naming that limit when the condition is valid); a
\* CombinedRule with at most the effective limit of children (and at least
\* one) is not rejected by this check: when its children are atomic rules,
\* which have no such check of their own, the result is neither error.
C3_RuleCountPolicy ==
    (Validated /\ IsCombined(rule)) =>
        /\ Len(rule.Rules) = 0 => vres # NoErr
        /\ (Len(rule.Rules) = 0 /\ rule.Condition \in {And, Or}) => vres = ErrEmptyRules
        /\ Len(rule.Rules) > EffectiveLimit(exprOpt) => vres # NoErr
        /\ (Len(rule.Rules) > EffectiveLimit(exprOpt) /\ rule.Condition \in {And, Or}) =>
              vres = ErrTooManyRules(EffectiveLimit(exprOpt))
        /\ (/\ Len(rule.Rules) > 0 /\ Len(rule.Rules) <= EffectiveLimit(exprOpt)
            /\ AllChildrenAtoms(rule)) =>
              vres.kind \notin {"TooManyRules", "EmptyRules"}

\* C3 witness: an option with a positive limit below the default, a
\* CombinedRule with more children than it, rejected with that limit
C3_Witness ==
    /\ Validated /\ IsCombined(rule) /\ exprOpt # Nil
    /\ Deref(exprOpt).MaxRulesLimit > 0
    /\ Deref(exprOpt).MaxRulesLimit < DefaultMaxRuleLimit
    /\ Len(rule.Rules) > Deref(exprOpt).MaxRulesLimit
    /\ vres = ErrTooManyRules(Deref(exprOpt).MaxRulesLimit)

C3_WitnessAtLimit ==
    /\ Validated /\ IsCombined(rule) /\ exprOpt # Nil
    /\ Deref(exprOpt).MaxRulesLimit = 3 /\ Len(rule.Rules) = 3 /\ vres = NoErr

\* ------------------------------------------------------------------------
\* C4
\* ------------------------------------------------------------------------
IsCompiled == pc = "compiled"

\* C4: for a CombinedRule with condition AND or OR and n >= 1 children that
\* all compile, ToMgo returns a mapping with exactly one key, the AND key or
\* the OR key according to the condition, whose value is the sequence of the
\* n children's fragments in declaration order.
C4_CompiledShape ==
    (/\ IsCompiled /\ IsCombined(rule)
     /\ rule.Condition \in {And, Or}
     /\ Len(rule.Rules) >= 1
     /\ \A i \in DOMAIN rule.Rules : ToMgo(rule.Rules[i], ruleOpts).err = NoErr) =>
        /\ mres.err = NoErr
        /\ Len(mres.doc) = 1
        /\ mres.doc[1].k = (IF rule.Condition = And THEN BKDBAND ELSE BKDBOR)
        /\ Len(mres.doc[1].v.filters) = Len(rule.Rules)
        /\ \A i \in DOMAIN rule.Rules :
              mres.doc[1].v.filters[i] = ToMgo(rule.Rules[i], ruleOpts).doc
        /\ (rule = CombinedRule(Or, <<AtomRule(FieldA, Equal, Num18),
                                      AtomRule(FieldB, Equal, StrAl)>>)
            /\ ruleOpts = <<>>) =>
              mres.doc = <<[k |-> BKDBOR,
                            v |-> [filters |->
                                     << <<[k |-> FieldA, v |-> [op |-> "$eq", value |-> Num18]]>>,
                                        <<[k |-> FieldB, v |-> [op |-> "$eq", value |-> StrAl]]>> >>]]>>

\* C4 witness: an OR of two different atomic rules compiled to two fragments
C4_Witness ==
    /\ IsCompiled /\ IsCombined(rule) /\ rule.Condition = Or
    /\ Len(rule.Rules) = 2 /\ rule.Rules[1] # rule.Rules[2]
    /\ mres.err = NoErr
    /\ Len(mres.doc[1].v.filters) = 2
    /\ mres.doc[1].v.filters[1] # mres.doc[1].v.filters[2]

\* ------------------------------------------------------------------------
\* C5
\* ------------------------------------------------------------------------
Digits == {"0", "1", "2", "3", "4", "5", "6", "7", "8", "9"}

\* the text of a strictly positive integer: decimal digits, not all zero,
\* after an optional plus sign
PositiveIntegerText(s) ==
    LET d == IF Len(s) > 0 /\ s[1] = "+" THEN Tail(s) ELSE s
    IN  /\ Len(d) >= 1
        /\ \A i \in DOMAIN d : d[i] \in Digits
        /\ \E i \in DOMAIN d : d[i] # "0"

ArrayContext ==
    /\ Len(ruleOpts) = 1 /\ ruleOpts[1] # Nil
    /\ Deref(ruleOpts[1]).ParentType = Array
    /\ Len(Deref(ruleOpts[1]).Parent) > 0

\* C5: under pathContext {parent p non-empty, parentType Array} an
\* AtomicRule whose field is the any-element sentinel compiles against the
\* path p; any other field compiles against p.field if and only if it is the
\* text of a strictly positive integer, and otherwise (non-numeric, "0",
\* negative) compilation fails with the invalid-array-index error and
\* returns no fragment.
C5_ArrayPathContext ==
    (IsCompiled /\ IsAtom(rule) /\ ArrayContext) =>
        LET p == Deref(ruleOpts[1]).Parent
        IN  /\ rule.Field = FilterArrayElement =>
                  mres = OpToMgo(rule.Operator, p, rule.Value)
            /\ (rule.Field # FilterArrayElement /\ PositiveIntegerText(rule.Field)) =>
                  mres = OpToMgo(rule.Operator, p \o <<".">> \o rule.Field, rule.Value)
            /\ (rule.Field # FilterArrayElement /\ ~PositiveIntegerText(rule.Field)) =>
                  /\ mres.doc = Nil
                  /\ mres.err.kind = "InvalidArrayIndex"
            /\ (rule = AtomRule(<<"1">>, Equal, Num18) /\ p = Tags) =>
                  mres = Compiled(<<[k |-> <<"t", "a", "g", "s", ".", "1">>,
                                     v |-> [op |-> "$eq", value |-> Num18]]>>)
            /\ rule.Field \in {<<"0">>, <<"-", "1">>, <<"1", "x">>, <<>>, <<"a">>} =>
                  mres.doc = Nil /\ mres.err.kind = "InvalidArrayIndex"

\* C5 witness: field "1" under the array context of parent "tags" compiled
\* to a fragment on "tags.1"
C5_Witness ==
    /\ IsCompiled /\ IsAtom(rule) /\ ArrayContext
    /\ rule.Field = <<"1">>
    /\ mres.err = NoErr
    /\ mres.doc[1].k = <<"t", "a", "g", "s", ".", "1">>

C5_WitnessRejected ==
    /\ IsCompiled /\ IsAtom(rule) /\ ArrayContext
    /\ rule.Field = <<"0">> /\ rule.Operator = Equal
    /\ mres.err = ErrInvalidArrayIndex(<<"0">>)

\* ------------------------------------------------------------------------
\* C6
\* ------------------------------------------------------------------------
Listed == pc = "listed"

IsStructural(r) ==
    IsAtom(r) /\ r.Operator \in {FilterObject, FilterArray} /\ r.Value.kind = "rule"

RECURSIVE FieldCountBefore(_, _)

\* the number of paths the children before child i report
FieldCountBefore(rules, i) ==
    IF i <= 1 THEN 0
    ELSE FieldCountBefore(rules, i - 1) + Len(RuleFields(rules[i - 1]))

RECURSIVE StructuralChain(_)

\* the number of structural operators nested directly in one another that
\* end in a plain atomic rule, or -1 when the nesting does not end so
StructuralChain(r) ==
    IF ~IsAtom(r) THEN 0 - 1
    ELSE IF ~IsStructural(r) THEN 0
    ELSE IF StructuralChain(Deref(r.Value.rule)) < 0 THEN 0 - 1
    ELSE 1 + StructuralChain(Deref(r.Value.rule))

Segments(path) == 1 + Cardinality({i \in DOMAIN path : path[i] = "."})

\* C6: a structural AtomicRule (FILTER_OBJECT or FILTER_ARRAY with a nested
\* rule) reports field.childPath for each path of the nested rule, in order
\* and with duplicates kept, so that k nested structural operators give k+1
\* segments; every other AtomicRule reports exactly its field; a CombinedRule
\* reports the concatenation of its children's paths in child order.
C6_FieldPaths ==
    Listed =>
        /\ IsStructural(rule) =>
              LET sub == RuleFields(Deref(rule.Value.rule))
              IN  /\ Len(fres) = Len(sub)
                  /\ \A i \in DOMAIN sub : fres[i] = rule.Field \o <<".">> \o sub[i]
        /\ (IsAtom(rule) /\ ~IsStructural(rule)) => fres = <<rule.Field>>
        /\ (IsAtom(rule) /\ StructuralChain(rule) >= 0) =>
              Len(fres) = 1 /\ Segments(fres[1]) = StructuralChain(rule) + 1
        /\ IsCombined(rule) =>
              /\ Len(fres) = FieldCountBefore(rule.Rules, Len(rule.Rules) + 1)
              /\ \A i \in DOMAIN rule.Rules :
                    \A j \in DOMAIN RuleFields(rule.Rules[i]) :
                        fres[FieldCountBefore(rule.Rules, i) + j] = RuleFields(rule.Rules[i])[j]
        /\ rule = AtomRule(FieldA, FilterObject, RuleValue(AtomRule(FieldB, Equal, StrAl))) =>
              fres = << <<"a", ".", "b">> >>

\* C6 witness: a structural operator nested in a structural operator over a
\* plain atomic rule reports one path of three segments
C6_Witness ==
    /\ Listed /\ IsStructural(rule) /\ IsStructural(Deref(rule.Value.rule))
    /\ Len(fres) = 1
    /\ Segments(fres[1]) = 3

C6_WitnessCombined ==
    /\ Listed /\ IsStructural(rule) /\ IsCombined(Deref(rule.Value.rule))
    /\ Len(fres) = 2 /\ fres[1] = <<"a", ".", "b">> /\ fres[2] = <<"a", ".", "a">>

\* ------------------------------------------------------------------------
\* C7
\* ------------------------------------------------------------------------
\* the position (from 1) of the first child for which Bad holds, 0 if none
FirstChild(rules, Bad(_)) ==
    IF \E i \in DOMAIN rules : Bad(rules[i])
    THEN CHOOSE i \in DOMAIN rules :
            Bad(rules[i]) /\ \A j \in 1..(i - 1) : ~Bad(rules[j])
    ELSE 0

FailsValidateWithoutOption(r) == Validate(r, Nil) # {NoErr}

FailsToMgo(r) == ToMgo(r, ruleOpts).err # NoErr

\* the CombinedRule passes its own checks when no option is given, so that
\* a failure of Validate is the failure of a child
OwnChecksPassWithoutOption(r) ==
    /\ r.Condition \in {And, Or}
    /\ Len(r.Rules) > 0
    /\ Len(r.Rules) <= DefaultMaxRuleLimit
    /\ RuleFields(r) # <<>>

\* C7, for ToMgo: the error of a CombinedRule whose child at position i is
\* the first to fail wraps that child's error with the index i
C7_ToMgoLocatable ==
    (/\ IsCompiled /\ IsCombined(rule)
     /\ rule.Condition \in {And, Or}
     /\ FirstChild(rule.Rules, FailsToMgo) > 0) =>
        LET i == FirstChild(rule.Rules, FailsToMgo)
        IN  mres = Failed(ErrRuleInvalid(i - 1, ToMgo(rule.Rules[i], ruleOpts).err))

\* C7, for Validate: the error of a CombinedRule whose child at position i
\* is the first to fail wraps that child's error with the index i
C7_ValidateLocatable ==
    (/\ Validated /\ IsCombined(rule) /\ exprOpt = Nil
     /\ OwnChecksPassWithoutOption(rule)
     /\ FirstChild(rule.Rules, FailsValidateWithoutOption) > 0) =>
        LET i == FirstChild(rule.Rules, FailsValidateWithoutOption)
        IN  \E err \in Validate(rule.Rules[i], Nil) : vres = ErrRuleInvalid(i - 1, err)

\* C7: when validation or compilation of a CombinedRule fails because its
\* child at position i failed, the returned error wraps the child's error
\* with the index i of the first failing child, for Validate and for ToMgo
C7_ErrorLocatable == C7_ValidateLocatable /\ C7_ToMgoLocatable

\* ------------------------------------------------------------------------
\* C8
\* ------------------------------------------------------------------------
FieldsDeclared(opt) == opt # Nil /\ DOMAIN Deref(opt).RuleFields # {}

Undeclared(paths, opt) == {i \in DOMAIN paths : paths[i] \notin DOMAIN Deref(opt).RuleFields}

\* the first path, in traversal order, that the option does not declare
FirstUndeclared(paths, opt) ==
    paths[CHOOSE i \in Undeclared(paths, opt) : \A j \in Undeclared(paths, opt) : i <= j]

\* the checks that come before the field check pass
ReachesFieldCheck(r, opt) ==
    /\ r.Condition \in {And, Or}
    /\ Len(r.Rules) > 0
    /\ Len(r.Rules) <= EffectiveLimit(opt)
    /\ RuleFields(r) # <<>>

\* C8, first half: with ruleFields set, Validate succeeds only if every path
\* the children report is declared
C8_OnlyDeclaredPass ==
    (Validated /\ IsCombined(rule) /\ FieldsDeclared(exprOpt) /\ vres = NoErr) =>
        Undeclared(RuleFields(rule), exprOpt) = {}

\* C8: with ruleFields set, Validate succeeds past the field check only if
\* every reported path is declared, and when paths are undeclared the error
\* names the first of them in traversal order, the same on every call
C8_FirstUnknownNamed ==
    (Validated /\ IsCombined(rule) /\ FieldsDeclared(exprOpt)) =>
        /\ vres = NoErr => Undeclared(RuleFields(rule), exprOpt) = {}
        /\ (/\ ReachesFieldCheck(rule, exprOpt)
            /\ Undeclared(RuleFields(rule), exprOpt) # {}) =>
              vres = ErrUnknownFieldInPolicy(FirstUndeclared(RuleFields(rule), exprOpt))

\* ------------------------------------------------------------------------
\* C9
\* ------------------------------------------------------------------------
\* C9: AtomRule.Validate on a rule whose field is the empty string fails
\* with the empty-field error for every option (nil, no ruleFields,
\* ruleFields of any content), whatever the operator and the value are
C9_EmptyFieldRejected ==
    (Validated /\ IsAtom(rule) /\ Len(rule.Field) = 0) => vres = ErrEmptyField

\* C9 witness: an empty field with an unknown operator and a nil value,
\* validated against declared ruleFields, fails with the empty-field error
C9_Witness ==
    /\ Validated /\ IsAtom(rule) /\ rule.Field = <<>>
    /\ OpFactoryValidate(rule.Operator) # NoErr
    /\ rule.Value = NilValue
    /\ FieldsDeclared(exprOpt)
    /\ vres = ErrEmptyField

\* ------------------------------------------------------------------------
\* C10
\* ------------------------------------------------------------------------
RECURSIVE HasLeaf(_)

\* an AtomicRule is reached from the rule through CombinedRule children
HasLeaf(r) == IF IsAtom(r) THEN TRUE ELSE \E i \in DOMAIN r.Rules : HasLeaf(r.Rules[i])

RECURSIVE WithParent(_, _)

\* the tree with the field of every such leaf rewritten to p.field
WithParent(r, p) ==
    IF IsAtom(r) THEN AtomRule(p \o <<".">> \o r.Field, r.Operator, r.Value)
    ELSE CombinedRule(r.Condition, [i \in DOMAIN r.Rules |-> WithParent(r.Rules[i], p)])

HasContext == Len(ruleOpts) = 1 /\ ruleOpts[1] # Nil

\* C10: CombinedRule.ToMgo hands its pathContext unchanged to every child.
\* Under {parent p, Object} every leaf reached through CombinedRules compiles
\* against p.field: the result is that of the tree with the leaves' fields so
\* rewritten, compiled without context. Without a context, or with a nil
\* one, every leaf compiles against its own field. With an empty parent, or
\* a parentType that is neither Object nor Array, the compilation of a tree
\* that has a leaf fails and returns no fragment.
C10_PathContextForwarded ==
    IsCompiled =>
        /\ (HasContext /\ Deref(ruleOpts[1]).ParentType = Object
            /\ Len(Deref(ruleOpts[1]).Parent) > 0) =>
              /\ mres = ToMgo(WithParent(rule, Deref(ruleOpts[1]).Parent), <<>>)
              /\ IsAtom(rule) =>
                    mres = OpToMgo(rule.Operator,
                                   Deref(ruleOpts[1]).Parent \o <<".">> \o rule.Field,
                                   rule.Value)
        /\ ~HasContext =>
              /\ mres = ToMgo(rule, <<>>)
              /\ IsAtom(rule) => mres = OpToMgo(rule.Operator, rule.Field, rule.Value)
        /\ (/\ HasContext
            /\ \/ Len(Deref(ruleOpts[1]).Parent) = 0
               \/ Deref(ruleOpts[1]).ParentType \notin {Object, Array}
            /\ HasLeaf(rule)) =>
              mres.err # NoErr /\ mres.doc = Nil

\* C10 witness: a leaf two CombinedRules deep compiled under {tags, Object}
\* to a fragment on tags.a
C10_Witness ==
    /\ IsCompiled /\ HasContext
    /\ ruleOpts[1] = Ptr(RuleOption(Tags, Object))
    /\ IsCombined(rule) /\ Len(rule.Rules) = 1 /\ IsCombined(rule.Rules[1])
    /\ Len(rule.Rules[1].Rules) = 1 /\ rule.Rules[1].Rules[1] = AtomRule(FieldA, Equal, Num18)
    /\ mres.err = NoErr
    /\ mres.doc[1].v.filters[1][1].v.filters[1][1].k = <<"t", "a", "g", "s", ".", "a">>

\* ------------------------------------------------------------------------
\* C11
\* ------------------------------------------------------------------------
ValidatedCompiled == pc = "validated_compiled"

RECURSIVE HasBrokenCombined(_)

\* a CombinedRule of the tree, reached through CombinedRule children, has a
\* condition other than AND and OR, or no rules
HasBrokenCombined(r) ==
    IF IsAtom(r) THEN FALSE
    ELSE \/ r.Condition \notin {And, Or}
         \/ Len(r.Rules) = 0
         \/ \E i \in DOMAIN r.Rules : HasBrokenCombined(r.Rules[i])

RECURSIVE FailureSite(_, _)

\* the rule of the tree at which a compile error arose: the error of a
\* CombinedRule that names a child's index is followed into that child
FailureSite(r, err) ==
    IF IsCombined(r) /\ err.kind = "RuleInvalid"
    THEN FailureSite(r.Rules[err.idx + 1], err.err)
    ELSE [rule |-> r, err |-> err]

\* C11: if Validate succeeds, under any option or none, then no CombinedRule
\* of the tree has an unsupported condition or no rules, and ToMgo without
\* path context fails only at an atomic leaf, with the error of the Operator
\* Catalog's compile of that leaf: never with the unsupported-condition or
\* empty-rules error of a CombinedRule.
C11_ValidationGuardsCompilation ==
    /\ (Validated /\ vres = NoErr) => ~HasBrokenCombined(rule)
    /\ (ValidatedCompiled /\ mres.err # NoErr) =>
          LET site == FailureSite(rule, mres.err)
          IN  /\ IsAtom(site.rule)
              /\ site.err = OpToMgo(site.rule.Operator, site.rule.Field, site.rule.Value).err

\* C11 witness: a validated tree with a nested CombinedRule, compiled
\* without path context to a document
C11_Witness ==
    /\ ValidatedCompiled /\ IsCombined(rule) /\ HasCombinedChild(rule)
    /\ exprOpt # Nil
    /\ mres.err = NoErr /\ Len(mres.doc) = 1

\* a validated tree whose compilation fails, at a structural leaf
C11_WitnessLeafFailure ==
    /\ ValidatedCompiled /\ IsCombined(rule)
    /\ mres.err # NoErr
    /\ IsAtom(FailureSite(rule, mres.err).rule)

====
